---------------------------- MODULE Spec2Model ----------------------------
(***************************************************************************)
(* Model of the enum generators generate_enums.py and generate_ids.py:     *)
(* name normalisation, collision resolution, ability key resolution,       *)
(* version patches, snapshot reconciliation and enum emission.             *)
(*                                                                         *)
(* A Python str is a sequence of one-character strings.  A Python dict is  *)
(* a sequence of [k, v] records in insertion order with pairwise distinct  *)
(* keys (dicts keep insertion order; an overwrite keeps the position).     *)
(***************************************************************************)
EXTENDS Integers, Sequences, FiniteSets, TLC

VARIABLES
    variant,    \* which script runs: "enums" (generate_enums.py) or "ids" (generate_ids.py)
    data,       \* the loaded JSON snapshots, in the order generate() loads them
    pc,         \* position of the run
    snap,       \* index in data of the snapshot parse_data is working on
    cat,        \* parse_simple: position in SimpleOrder; generate: position in ENUM_NAMES
    idx,        \* position of the loop over data[d] / data["Abilities"]
    units,      \* parse_simple's local dict under construction
    parsed,     \* the dicts parse_simple has returned to the running parse_data
    abilities,  \* parse_data's local dict under construction
    key,        \* the symbol the last processed entry was inserted under
    enums,      \* the tuples parse_data has returned, one per snapshot
    err,        \* how the run died, "" while it has not
    files,      \* the files written so far: file name -> blocks
    mod         \* the lines collected for mod.rs, and whether mod.rs is written

vars == <<variant, data, pc, snap, cat, idx, units, parsed, abilities, key,
          enums, err, files, mod>>

-----------------------------------------------------------------------------
(* Bounds of the model                                                     *)

MaxEntries == 2     \* entries per simple category in the enumerated snapshots
MaxId == 2          \* raw ids 1..MaxId in the enumerated simple categories
MaxAbilities == 2   \* entries of data["Abilities"] in the enumerated snapshots

-----------------------------------------------------------------------------
(* Python str and dict primitives                                          *)

Digits == <<"0", "1", "2", "3", "4", "5", "6", "7", "8", "9">>
Lower == <<"a", "b", "c", "d", "e", "f", "g", "h", "i", "j", "k", "l", "m",
           "n", "o", "p", "q", "r", "s", "t", "u", "v", "w", "x", "y", "z">>
Upper == <<"A", "B", "C", "D", "E", "F", "G", "H", "I", "J", "K", "L", "M",
           "N", "O", "P", "Q", "R", "S", "T", "U", "V", "W", "X", "Y", "Z">>

Range(s) == {s[i] : i \in DOMAIN s}

isdigit(c) == c \in Range(Digits)

upper(c) ==
    IF \E i \in DOMAIN Lower : Lower[i] = c
    THEN Upper[CHOOSE i \in DOMAIN Lower : Lower[i] = c]
    ELSE c

RECURSIVE str(_)
str(n) == IF n < 10 THEN <<Digits[n + 1]>> ELSE str(n \div 10) \o <<Digits[(n % 10) + 1]>>

StartsWith(s, p) == Len(s) >= Len(p) /\ SubSeq(s, 1, Len(p)) = p

RECURSIVE replace(_, _, _)
replace(s, old, new) ==
    IF s = <<>> THEN <<>>
    ELSE IF StartsWith(s, old)
         THEN new \o replace(SubSeq(s, Len(old) + 1, Len(s)), old, new)
         ELSE <<Head(s)>> \o replace(Tail(s), old, new)

Keys(d) == {d[i].k : i \in DOMAIN d}
Get(d, k) == d[CHOOSE i \in DOMAIN d : d[i].k = k].v
Items(d) == {<<d[i].k, d[i].v>> : i \in DOMAIN d}

Put(d, k, v) ==
    IF k \in Keys(d)
    THEN [i \in DOMAIN d |-> IF d[i].k = k THEN [k |-> k, v |-> v] ELSE d[i]]
    ELSE Append(d, [k |-> k, v |-> v])

DictEq(a, b) == Items(a) = Items(b)

-----------------------------------------------------------------------------
(* Constants of the scripts                                                *)

ENUM_NAMES == <<"UnitTypeId", "AbilityId", "UpgradeId", "BuffId", "EffectId">>
FILE_NAMES == <<"unit_typeid", "ability_id", "upgrade_id", "buff_id", "effect_id">>

\* The order in which parse_data calls parse_simple, and where each result
\* lands in the tuple (units, abilities, upgrades, buffs, effects) it returns.
SimpleOrder == <<"Units", "Upgrades", "Effects", "Buffs">>

\* generate_ids.py only; generate_enums.py has no rename table.
MIMICS ==
    [e \in {"UnitTypeId", "UpgradeId"} |->
        IF e = "UnitTypeId"
        THEN << [k |-> <<"L", "u", "r", "k", "e", "r">>, v |-> <<"L", "u", "r", "k", "e", "r", "M", "P">>],
                [k |-> <<"L", "u", "r", "k", "e", "r", "B", "u", "r", "r", "o", "w", "e", "d">>, v |-> <<"L", "u", "r", "k", "e", "r", "M", "P", "B", "u", "r", "r", "o", "w", "e", "d">>],
                [k |-> <<"L", "u", "r", "k", "e", "r", "D", "e", "n">>, v |-> <<"L", "u", "r", "k", "e", "r", "D", "e", "n", "M", "P">>],
                [k |-> <<"L", "u", "r", "k", "e", "r", "E", "g", "g">>, v |-> <<"L", "u", "r", "k", "e", "r", "M", "P", "E", "g", "g">>] >>
        ELSE << [k |-> <<"T", "e", "r", "r", "a", "n", "V", "e", "h", "i", "c", "l", "e", "A", "r", "m", "o", "r", "s", "L", "e", "v", "e", "l", "1">>, v |-> <<"T", "e", "r", "r", "a", "n", "V", "e", "h", "i", "c", "l", "e", "A", "n", "d", "S", "h", "i", "p", "A", "r", "m", "o", "r", "s", "L", "e", "v", "e", "l", "1">>],
                [k |-> <<"T", "e", "r", "r", "a", "n", "V", "e", "h", "i", "c", "l", "e", "A", "r", "m", "o", "r", "s", "L", "e", "v", "e", "l", "2">>, v |-> <<"T", "e", "r", "r", "a", "n", "V", "e", "h", "i", "c", "l", "e", "A", "n", "d", "S", "h", "i", "p", "A", "r", "m", "o", "r", "s", "L", "e", "v", "e", "l", "2">>],
                [k |-> <<"T", "e", "r", "r", "a", "n", "V", "e", "h", "i", "c", "l", "e", "A", "r", "m", "o", "r", "s", "L", "e", "v", "e", "l", "3">>, v |-> <<"T", "e", "r", "r", "a", "n", "V", "e", "h", "i", "c", "l", "e", "A", "n", "d", "S", "h", "i", "p", "A", "r", "m", "o", "r", "s", "L", "e", "v", "e", "l", "3">>],
                [k |-> <<"T", "e", "r", "r", "a", "n", "S", "h", "i", "p", "A", "r", "m", "o", "r", "s", "L", "e", "v", "e", "l", "1">>, v |-> <<"T", "e", "r", "r", "a", "n", "V", "e", "h", "i", "c", "l", "e", "A", "n", "d", "S", "h", "i", "p", "A", "r", "m", "o", "r", "s", "L", "e", "v", "e", "l", "1">>],
                [k |-> <<"T", "e", "r", "r", "a", "n", "S", "h", "i", "p", "A", "r", "m", "o", "r", "s", "L", "e", "v", "e", "l", "2">>, v |-> <<"T", "e", "r", "r", "a", "n", "V", "e", "h", "i", "c", "l", "e", "A", "n", "d", "S", "h", "i", "p", "A", "r", "m", "o", "r", "s", "L", "e", "v", "e", "l", "2">>],
                [k |-> <<"T", "e", "r", "r", "a", "n", "S", "h", "i", "p", "A", "r", "m", "o", "r", "s", "L", "e", "v", "e", "l", "3">>, v |-> <<"T", "e", "r", "r", "a", "n", "V", "e", "h", "i", "c", "l", "e", "A", "n", "d", "S", "h", "i", "p", "A", "r", "m", "o", "r", "s", "L", "e", "v", "e", "l", "3">>],
                [k |-> <<"M", "a", "r", "i", "n", "e", "S", "t", "i", "m", "p", "a", "c", "k">>, v |-> <<"S", "t", "i", "m", "p", "a", "c", "k">>],
                [k |-> <<"C", "o", "m", "b", "a", "t", "S", "h", "i", "e", "l", "d">>, v |-> <<"S", "h", "i", "e", "l", "d", "W", "a", "l", "l">>],
                [k |-> <<"J", "a", "c", "k", "h", "a", "m", "m", "e", "r", "C", "o", "n", "c", "u", "s", "s", "i", "o", "n", "G", "r", "e", "n", "a", "d", "e", "s">>, v |-> <<"P", "u", "n", "i", "s", "h", "e", "r", "G", "r", "e", "n", "a", "d", "e", "s">>],
                [k |-> <<"I", "n", "f", "e", "r", "n", "a", "l", "P", "r", "e", "I", "g", "n", "i", "t", "e", "r", "s">>, v |-> <<"H", "i", "g", "h", "C", "a", "p", "a", "c", "i", "t", "y", "B", "a", "r", "r", "e", "l", "s">>],
                [k |-> <<"H", "e", "l", "l", "i", "o", "n", "C", "a", "m", "p", "a", "i", "g", "n", "I", "n", "f", "e", "r", "n", "a", "l", "P", "r", "e", "I", "g", "n", "i", "t", "e", "r">>, v |-> <<"H", "i", "g", "h", "C", "a", "p", "a", "c", "i", "t", "y", "B", "a", "r", "r", "e", "l", "s">>],
                [k |-> <<"T", "r", "a", "n", "s", "f", "o", "r", "m", "a", "t", "i", "o", "n", "S", "e", "r", "v", "o", "s">>, v |-> <<"S", "m", "a", "r", "t", "S", "e", "r", "v", "o", "s">>],
                [k |-> <<"C", "y", "c", "l", "o", "n", "e", "R", "a", "p", "i", "d", "F", "i", "r", "e", "L", "a", "u", "n", "c", "h", "e", "r", "s">>, v |-> <<"C", "y", "c", "l", "o", "n", "e", "L", "o", "c", "k", "O", "n", "D", "a", "m", "a", "g", "e", "U", "p", "g", "r", "a", "d", "e">>],
                [k |-> <<"M", "a", "g", "F", "i", "e", "l", "d", "L", "a", "u", "n", "c", "h", "e", "r", "s">>, v |-> <<"C", "y", "c", "l", "o", "n", "e", "L", "o", "c", "k", "O", "n", "D", "a", "m", "a", "g", "e", "U", "p", "g", "r", "a", "d", "e">>],
                [k |-> <<"P", "e", "r", "m", "a", "n", "e", "n", "t", "C", "l", "o", "a", "k", "G", "h", "o", "s", "t">>, v |-> <<"P", "e", "r", "s", "o", "n", "a", "l", "C", "l", "o", "a", "k", "i", "n", "g">>],
                [k |-> <<"Y", "a", "m", "a", "t", "o", "C", "a", "n", "n", "o", "n">>, v |-> <<"B", "a", "t", "t", "l", "e", "c", "r", "u", "i", "s", "e", "r", "E", "n", "a", "b", "l", "e", "S", "p", "e", "c", "i", "a", "l", "i", "z", "a", "t", "i", "o", "n", "s">>] >>]

\* Variant of mimic that looks the symbol up in every enum's rename table.
mimicAnyEnum(id, enum, var) ==
    IF var = "ids" /\ \E e \in DOMAIN MIMICS : id \in Keys(MIMICS[e])
    THEN <<enum, Get(MIMICS[CHOOSE e \in DOMAIN MIMICS : id \in Keys(MIMICS[e])], id)>>
    ELSE <<>>

\* mimic(id, enum): "" (modelled <<>>) on KeyError, else the deprecation
\* note, modelled by the pair <<enum, canonical symbol>> it is formatted from.
mimic(id, enum, var) ==
    IF var = "ids" /\ enum \in DOMAIN MIMICS /\ id \in Keys(MIMICS[enum])
    THEN <<enum, Get(MIMICS[enum], id)>>
    ELSE <<>>

-----------------------------------------------------------------------------
(* Name normalisation and collision resolution (parse_simple)              *)

\* generate_enums.py: key.replace(" ", "").replace("_", "")
stripEnums(s) == replace(replace(s, <<" ">>, <<>>), <<"_">>, <<>>)

\* generate_ids.py: key.replace(" ", "").replace("_", "").replace("@", "")
stripIds(s) == replace(replace(replace(s, <<" ">>, <<>>), <<"_">>, <<>>), <<"@">>, <<>>)

strip(s, var) == IF var = "ids" THEN stripIds(s) ELSE stripEnums(s)

\* if key[0].isdigit(): key = "_" + key
DigitGuard(s) == IF isdigit(s[1]) THEN <<"_">> \o s ELSE s

\* Variant of Capitalize that leaves the first character as it is.
CapitalizeNot(s) == s

\* key[0].upper() + key[1:]
Capitalize(s) == <<upper(s[1])>> \o Tail(s)

\* index = 2; while f"{key}{index}" in units: index += 1
RECURSIVE FreeSuffix(_, _, _)
FreeSuffix(d, s, index) ==
    IF (s \o str(index)) \in Keys(d) THEN FreeSuffix(d, s, index + 1) ELSE s \o str(index)

Disambiguate(d, s) == IF s \in Keys(d) THEN FreeSuffix(d, s, 2) ELSE s

\* The symbol one iteration of parse_simple's loop inserts under, for a name
\* whose stripped form is not empty.
SimpleKey(d, name, var) == Capitalize(Disambiguate(d, DigitGuard(strip(name, var))))

-----------------------------------------------------------------------------
(* Ability key resolution (the loop of parse_data)                         *)

\* Variant of SkipEntry with `or` for `and`.
SkipEntryEither(v) == v.buttonname = <<>> \/ "remapid" \notin v.has

\* if (not key) and (remapid is None): continue
SkipEntry(v) == v.buttonname = <<>> /\ "remapid" \notin v.has

\* Variant of ComposeKey with the two `if` statements in the other order:
\* the name prefix is put in front of the friendly label too.
ComposeKeyNameLast(v, k0, var) ==
    LET k1 == IF "friendlyname" \in v.has THEN strip(v.friendlyname, var) ELSE strip(k0, var)
    IN  IF "name" \in v.has THEN strip(v.name, var) \o k1 ELSE k1

\* The key text built from the label k0 the entry resolved to: stripped,
\* prefixed with the stripped name if the record has one, replaced by the
\* stripped friendly label if the record has one.
ComposeKey(v, k0, var) ==
    LET k1 == strip(k0, var)
        k2 == IF "name" \in v.has THEN strip(v.name, var) \o k1 ELSE k1
    IN  IF "friendlyname" \in v.has THEN strip(v.friendlyname, var) ELSE k2

\* What one iteration of the loop over data["Abilities"] does with entry v:
\*   "skip"       continue
\*   "exit"       exit("Not mapped: ...")
\*   "KeyError"   v["friendlyname"] on a record without that key
\*   "IndexError" key[0] on an empty key
\*   "key"        the entry is stored under .key
AbilityKey(v, var) ==
    IF SkipEntry(v) THEN [kind |-> "skip", key |-> <<>>]
    ELSE IF v.buttonname = <<>> /\ "friendlyname" \notin v.has
    THEN [kind |-> "KeyError", key |-> <<>>]
    ELSE IF v.buttonname = <<>> /\ v.friendlyname = <<>>
    THEN [kind |-> "exit", key |-> <<>>]
    ELSE LET k0 == IF v.buttonname = <<>> THEN v.friendlyname ELSE v.buttonname
             k3 == ComposeKey(v, k0, var)
         IN  IF k3 = <<>> THEN [kind |-> "IndexError", key |-> <<>>]
             ELSE [kind |-> "key",
                   key |-> replace(Capitalize(DigitGuard(k3)),
                                   <<"R", "e", "s", "e", "a", "r", "c", "h", "R", "e", "s", "e", "a", "r", "c", "h">>, <<"R", "e", "s", "e", "a", "r", "c", "h">>)]

\* Variant of AbilityValue that stores v["index"].
AbilityValueIndex(v) == v.index

\* The value stored for an entry: v["id"]
AbilityValue(v) == v.id

\* "fixes for wrong ids" of generate_enums.py; t is the tuple
\* (units, abilities, upgrades, buffs, effects).
PatchEnums(t, version) ==
    IF version = "4.10"
    THEN [t EXCEPT ![3] = Put(@, <<"E", "n", "h", "a", "n", "c", "e", "d", "S", "h", "o", "c", "k", "w", "a", "v", "e", "s">>, 296),
                   ![2] = Put(@, <<"G", "h", "o", "s", "t", "A", "c", "a", "d", "e", "m", "y", "R", "e", "s", "e", "a", "r", "c", "h", "E", "n", "h", "a", "n", "c", "e", "d", "S", "h", "o", "c", "k", "w", "a", "v", "e", "s">>, 822)]
    ELSE IF version = "None"
    THEN [t EXCEPT ![2] = Put(@, <<"T", "e", "r", "r", "a", "n", "B", "u", "i", "l", "d", "R", "e", "f", "i", "n", "e", "r", "y">>, 320)]
    ELSE t

\* "fixes for wrong ids" of generate_ids.py.  Its generate() calls
\* parse_data without a version only, so the "linux505" branch never runs
\* and is left out.
PatchIds(t, version) ==
    IF version = "None"
    THEN [t EXCEPT ![2] = Put(@, <<"T", "e", "r", "r", "a", "n", "B", "u", "i", "l", "d", "R", "e", "f", "i", "n", "e", "r", "y">>, 320)]
    ELSE t

Patch(t, var, version) == IF var = "ids" THEN PatchIds(t, version) ELSE PatchEnums(t, version)

\* The version argument generate() passes for the n-th snapshot it loads.
VersionOf(var, n) == IF var = "enums" /\ n = 2 THEN "4.10" ELSE "None"

\* How many snapshots generate() loads.
Snapshots(var) == IF var = "enums" THEN 2 ELSE 1

-----------------------------------------------------------------------------
(* Emission (gen_enum, generate)                                           *)

\* sorted(enum.items(), key=lambda x: x[1]): stable, by value
RECURSIVE sorted(_)
sorted(d) ==
    IF d = <<>> THEN <<>>
    ELSE LET front == sorted(SubSeq(d, 1, Len(d) - 1))
             x == d[Len(d)]
             n == Cardinality({i \in DOMAIN front : front[i].v <= x.v})
         IN  SubSeq(front, 1, n) \o <<x>> \o SubSeq(front, n + 1, Len(front))

\* The members of one enum block: mimic(k, name) + f"\t{k} = {v},\n" each.
gen_enum(enum, name, var) ==
    LET s == sorted(enum)
    IN  [i \in DOMAIN s |-> [note |-> mimic(s[i].k, name, var), k |-> s[i].k, v |-> s[i].v]]

\* Variant of SameEnum that compares the symbols only.
SameEnumKeys(enum, enum_linux) == Keys(enum) = Keys(enum_linux)

\* if enum == enum_linux
SameEnum(enum, enum_linux) == DictEq(enum, enum_linux)

\* The text generate() writes for one category, as its blocks.
Generated(enum, enum_linux, name, var) ==
    IF SameEnum(enum, enum_linux)
    THEN << [cfg |-> "", name |-> name, members |-> gen_enum(enum, name, var)] >>
    ELSE << [cfg |-> "windows", name |-> name, members |-> gen_enum(enum, name, var)],
            [cfg |-> "linux", name |-> name, members |-> gen_enum(enum_linux, name, var)] >>

\* enums_latest, and enums_4_10 (generate_enums.py) or the alias
\* enums_linux = enums_latest (generate_ids.py)
EnumsLatest == enums[1]
EnumsLinux == IF variant = "enums" THEN enums[2] ELSE enums[1]

-----------------------------------------------------------------------------
(* The input snapshots the model enumerates                                *)

SeqsUpTo(S, n) == UNION {[1..m -> S] : m \in 0..n}

EmptySnapshot ==
    [Units |-> <<>>, Upgrades |-> <<>>, Effects |-> <<>>, Buffs |-> <<>>, Abilities |-> <<>>]

Simple(name, id) == [name |-> name, id |-> id]

\* Raw names of a simple category: plain, lower-case initial, ending in a
\* digit, separators only, empty, digit initial, other initial with an `@`.
NamePool == {<<"Z", "e", "a", "l", "o", "t">>, <<"z", "e", "a", "l", "o", "t">>, <<"Z", "e", "a", "l", "o", "t", "2">>, <<" ", "_">>, <<>>, <<"9", " ", "l", "i", "v", "e", "s">>, <<"#", "a", "@", "b">>}

ExampleUnits ==
    { << Simple(<<"Z", "e", "a", "l", "o", "t">>, 1), Simple(<<"Z", "e", "a", "l", "o", "t">>, 2), Simple(<<"Z", "e", "a", "l", "o", "t">>, 3) >>,
      << Simple(<<"Z", "e", "a", "l", "o", "t">>, 1), Simple(<<"Z", "e", "a", "l", "o", "t">>, 2), Simple(<<"Z", "e", "a", "l", "o", "t", "2">>, 3) >> }

SimpleInputs == SeqsUpTo([name : NamePool, id : 1..MaxId], MaxEntries) \cup ExampleUnits

Ability(button, has, name, friendly, index, id) ==
    [buttonname |-> button, has |-> has, name |-> name, friendlyname |-> friendly,
     remapid |-> 1, index |-> index, id |-> id]

\* Every combination of button label, name, friendly label and remap
\* reference (a field the record does not carry is held as <<>>).
AbilityShapes ==
    { Ability(b, h \cup {"index"}, n, f, 0, 1) :
        b \in {<<>>, <<"R", "e", "s", "e", "a", "r", "c", "h">>, <<" ">>},
        h \in SUBSET {"name", "friendlyname", "remapid"},
        n \in {<<>>, <<"G", "h", "o", "s", "t", " ", "A", "c", "a", "d", "e", "m", "y">>, <<"R", "e", "s", "e", "a", "r", "c", "h">>},
        f \in {<<>>, <<"Y", "a", "m", "a", "t", "o", " ", "C", "a", "n", "n", "o", "n">>, <<" ", "_">>} }

WellFormedShapes ==
    { v \in AbilityShapes :
        /\ ("name" \notin v.has => v.name = <<>>)
        /\ ("name" \in v.has => v.name # <<>>)
        /\ ("friendlyname" \notin v.has => v.friendlyname = <<>>) }

AbilityPool ==
    { Ability(<<"R", "e", "s", "e", "a", "r", "c", "h">>, {"name", "index"}, <<"G", "h", "o", "s", "t", " ", "A", "c", "a", "d", "e", "m", "y">>, <<>>, 0, 1),
      Ability(<<"R", "e", "s", "e", "a", "r", "c", "h">>, {"name", "index"}, <<"G", "h", "o", "s", "t", " ", "A", "c", "a", "d", "e", "m", "y">>, <<>>, 1, 2),
      Ability(<<>>, {"remapid", "friendlyname", "index"}, <<>>, <<"Y", "a", "m", "a", "t", "o", " ", "C", "a", "n", "n", "o", "n">>, 0, 3),
      Ability(<<>>, {"remapid", "friendlyname", "index"}, <<>>, <<>>, 0, 4),
      Ability(<<"9", " ", "x">>, {"index"}, <<>>, <<>>, 0, 1),
      Ability(<<"R", "e", "s", "e", "a", "r", "c", "h">>, {"name"}, <<"R", "e", "s", "e", "a", "r", "c", "h">>, <<>>, 0, 5),
      Ability(<<"R", "e", "s", "e", "a", "r", "c", "h">>, {"index"}, <<>>, <<>>, 0, 6),
      Ability(<<"R", "e", "f", "i", "n", "e", "r", "y">>, {"index"}, <<>>, <<>>, 0, 320),
      Ability(<<" ">>, {"index"}, <<>>, <<>>, 0, 7) }

AbilityInputs == {<<v>> : v \in WellFormedShapes} \cup SeqsUpTo(AbilityPool, MaxAbilities)

\* Whole snapshots with entries in every category, for reconciliation,
\* patches and emission.
UnitsChoices ==
    { << Simple(<<"M", "a", "r", "i", "n", "e">>, 48) >>,
      << Simple(<<"M", "a", "r", "i", "n", "e">>, 49) >>,
      << Simple(<<"L", "u", "r", "k", "e", "r", "M", "P">>, 502), Simple(<<"L", "u", "r", "k", "e", "r">>, 911), Simple(<<"M", "a", "r", "i", "n", "e">>, 48) >> }

UpgradesChoices ==
    { << Simple(<<"S", "t", "i", "m", "p", "a", "c", "k">>, 15), Simple(<<"M", "a", "r", "i", "n", "e", " ", "S", "t", "i", "m", "p", "a", "c", "k">>, 16) >>,
      << Simple(<<"S", "t", "i", "m", "p", "a", "c", "k">>, 15), Simple(<<"E", "n", "h", "a", "n", "c", "e", "d", "S", "h", "o", "c", "k", "w", "a", "v", "e", "s">>, 296) >>,
      << Simple(<<"T", "e", "m", "p", "e", "s", "t", "G", "r", "o", "u", "n", "d", "A", "t", "t", "a", "c", "k", "U", "p", "g", "r", "a", "d", "e">>, 296) >> }

EffectsBuffsChoices ==
    { << <<>>, <<>> >>,
      << << Simple(<<"P", "s", "i", " ", "S", "t", "o", "r", "m">>, 1) >>, << Simple(<<"L", "u", "r", "k", "e", "r">>, 5), Simple(<<"S", "t", "i", "m", "p", "a", "c", "k">>, 27) >> >> }

AbilitiesChoices ==
    { <<>>,
      << Ability(<<"R", "e", "f", "i", "n", "e", "r", "y">>, {"name", "index"}, <<"T", "e", "r", "r", "a", "n", " ", "B", "u", "i", "l", "d">>, <<>>, 0, 320),
         Ability(<<"R", "e", "s", "e", "a", "r", "c", "h">>, {"friendlyname", "index"}, <<>>,
                 <<"G", "h", "o", "s", "t", " ", "A", "c", "a", "d", "e", "m", "y", " ", "R", "e", "s", "e", "a", "r", "c", "h", " ", "E", "n", "h", "a", "n", "c", "e", "d", " ", "S", "h", "o", "c", "k", "w", "a", "v", "e", "s">>, 0, 822) >>,
      << Ability(<<>>, {"remapid", "friendlyname", "index"}, <<>>, <<"Y", "a", "m", "a", "t", "o", " ", "C", "a", "n", "n", "o", "n">>, 0, 401) >> }

FullSnapshots ==
    { [Units |-> u, Upgrades |-> g, Effects |-> eb[1], Buffs |-> eb[2], Abilities |-> a] :
        u \in UnitsChoices, g \in UpgradesChoices,
        eb \in EffectsBuffsChoices, a \in AbilitiesChoices }

\* The full snapshots that differ from s in at most one category.
NearSnapshots(s) ==
    { t \in FullSnapshots :
        Cardinality({c \in {"Units", "Upgrades", "Effects", "Abilities"} : s[c] # t[c]}) <= 1 }

\* The snapshots of one run: stableid.json and, for generate_enums.py,
\* stableid_4.10.json.
Inputs(var) ==
    LET first == {[EmptySnapshot EXCEPT !.Units = u] : u \in SimpleInputs}
                 \cup {[EmptySnapshot EXCEPT !.Abilities = a] : a \in AbilityInputs}
                 \cup {[EmptySnapshot EXCEPT !.Units = <<Simple(n, 1)>>, !.Abilities = <<a>>] :
                          n \in NamePool, a \in AbilityPool}
    IN  IF var = "ids"
        THEN {<<s>> : s \in first \cup FullSnapshots}
        ELSE {<<s, EmptySnapshot>> : s \in first}
             \cup {<<EmptySnapshot, s>> : s \in first}
             \cup UNION {{<<s, t>> : t \in NearSnapshots(s)} : s \in FullSnapshots}

-----------------------------------------------------------------------------
(* The run                                                                 *)

NoParsed == [Units |-> <<>>, Upgrades |-> <<>>, Effects |-> <<>>, Buffs |-> <<>>]

Init ==
    /\ variant \in {"enums", "ids"}
    /\ data \in Inputs(variant)
    /\ pc = "parse_simple"
    /\ snap = 1
    /\ cat = 1
    /\ idx = 1
    /\ units = <<>>
    /\ parsed = NoParsed
    /\ abilities = <<>>
    /\ key = <<>>
    /\ enums = <<>>
    /\ err = ""
    /\ files = <<>>
    /\ mod = [mods |-> <<>>, uses |-> <<>>, written |-> FALSE]

\* An uncaught exception or exit(): the run dies where it stands.
Abort(e) ==
    /\ err' = e
    /\ UNCHANGED <<variant, data, pc, snap, cat, idx, units, parsed, abilities, key,
                   enums, files, mod>>

\* One iteration of `for v in data[d]` in parse_simple.
ParseSimpleStep ==
    /\ err = ""
    /\ pc = "parse_simple"
    /\ idx <= Len(data[snap][SimpleOrder[cat]])
    /\ LET v == data[snap][SimpleOrder[cat]][idx]
       IN  IF v.name = <<>>
           THEN /\ idx' = idx + 1
                /\ UNCHANGED <<variant, data, pc, snap, cat, units, parsed, abilities,
                               key, enums, err, files, mod>>
           ELSE IF strip(v.name, variant) = <<>>
           THEN Abort("IndexError")
           ELSE /\ key' = SimpleKey(units, v.name, variant)
                /\ units' = Put(units, key', v.id)
                /\ idx' = idx + 1
                /\ UNCHANGED <<variant, data, pc, snap, cat, parsed, abilities,
                               enums, err, files, mod>>

\* `return units` of parse_simple, and parse_data's next call.
ParseSimpleReturn ==
    /\ err = ""
    /\ pc = "parse_simple"
    /\ idx > Len(data[snap][SimpleOrder[cat]])
    /\ parsed' = [parsed EXCEPT ![SimpleOrder[cat]] = units]
    /\ units' = <<>>
    /\ idx' = 1
    /\ IF cat < Len(SimpleOrder)
       THEN cat' = cat + 1 /\ pc' = "parse_simple"
       ELSE cat' = 1 /\ pc' = "abilities"
    /\ UNCHANGED <<variant, data, snap, abilities, key, enums, err, files, mod>>

\* One iteration of `for v in data["Abilities"]` in parse_data.
AbilityStep ==
    /\ err = ""
    /\ pc = "abilities"
    /\ idx <= Len(data[snap].Abilities)
    /\ LET v == data[snap].Abilities[idx]
           r == AbilityKey(v, variant)
       IN  CASE r.kind = "skip" ->
                  /\ idx' = idx + 1
                  /\ UNCHANGED <<variant, data, pc, snap, cat, units, parsed, abilities,
                                 key, enums, err, files, mod>>
             [] r.kind = "exit" -> Abort("Not mapped")
             [] r.kind \in {"KeyError", "IndexError"} -> Abort(r.kind)
             [] r.kind = "key" ->
                  IF r.key \in Keys(abilities) /\ "index" \notin v.has
                  THEN Abort("KeyError")
                  ELSE /\ key' = r.key
                       /\ abilities' = Put(abilities, r.key, AbilityValue(v))
                       /\ idx' = idx + 1
                       /\ UNCHANGED <<variant, data, pc, snap, cat, units, parsed,
                                      enums, err, files, mod>>

\* The tuple parse_data returns, before the fixes.
Resolved == <<parsed.Units, abilities, parsed.Upgrades, parsed.Buffs, parsed.Effects>>

\* The end of parse_data: the fixes for wrong ids and the return; generate()
\* then parses the next snapshot or starts writing.
ParseDataReturn ==
    /\ err = ""
    /\ pc = "abilities"
    /\ idx > Len(data[snap].Abilities)
    /\ enums' = Append(enums, Patch(Resolved, variant, VersionOf(variant, snap)))
    /\ parsed' = NoParsed
    /\ abilities' = <<>>
    /\ idx' = 1
    /\ cat' = 1
    /\ IF snap < Snapshots(variant)
       THEN snap' = snap + 1 /\ pc' = "parse_simple"
       ELSE snap' = snap /\ pc' = "write"
    /\ UNCHANGED <<variant, data, units, key, err, files, mod>>

\* One iteration of the zip loop of generate(): write_text of <file>.rs.
WriteEnumFile ==
    /\ err = ""
    /\ pc = "write"
    /\ cat <= Len(ENUM_NAMES)
    /\ files' = Append(files,
                       [file |-> FILE_NAMES[cat],
                        blocks |-> Generated(EnumsLatest[cat], EnumsLinux[cat],
                                             ENUM_NAMES[cat], variant)])
    /\ mod' = [mod EXCEPT !.mods = Append(@, FILE_NAMES[cat]),
                          !.uses = Append(@, <<FILE_NAMES[cat], ENUM_NAMES[cat]>>)]
    /\ cat' = cat + 1
    /\ UNCHANGED <<variant, data, pc, snap, idx, units, parsed, abilities, key, enums, err>>

\* write_text of mod.rs, after the loop.
WriteMod ==
    /\ err = ""
    /\ pc = "write"
    /\ cat > Len(ENUM_NAMES)
    /\ mod' = [mod EXCEPT !.written = TRUE]
    /\ pc' = "done"
    /\ UNCHANGED <<variant, data, snap, cat, idx, units, parsed, abilities, key,
                   enums, err, files>>

Next ==
    \/ ParseSimpleStep
    \/ ParseSimpleReturn
    \/ AbilityStep
    \/ ParseDataReturn
    \/ WriteEnumFile
    \/ WriteMod

Spec == Init /\ [][Next]_vars

-----------------------------------------------------------------------------
(* Vocabulary of the properties                                            *)

\* The raw entries of the category that lands at position c of parse_data's
\* tuple, in snapshot s.
RawCategory == <<"Units", "Abilities", "Upgrades", "Buffs", "Effects">>
Raw(s, c) == data[s][RawCategory[c]]

\* The entries of the loop parse_simple is running, and those it has
\* finished (all of them once the loop is over).
SimpleList == data[snap][SimpleOrder[cat]]
AbilityList == data[snap].Abilities
Running(p) == err = "" /\ pc = p

\* The normalized name of the specification: strip, digit guard, capitalise.
Normalize(name) == Capitalize(DigitGuard(strip(name, variant)))

\* The finishing steps of an ability key: digit guard, capitalisation and
\* the collapse of the doubled "Research".
Finish(s) == replace(Capitalize(DigitGuard(s)), <<"R", "e", "s", "e", "a", "r", "c", "h", "R", "e", "s", "e", "a", "r", "c", "h">>, <<"R", "e", "s", "e", "a", "r", "c", "h">>)

Finalized == {<<s, c>> : s \in DOMAIN enums, c \in DOMAIN ENUM_NAMES}

Letters == Range(Lower) \cup Range(Upper)

-----------------------------------------------------------------------------
(* C1, C2, C10: parse_simple                                               *)

\* The table the collision rule of the specification builds from a list of
\* entries: the first entry of a normalized name takes it unsuffixed, each
\* later one takes the smallest free suffix >= 2.
RECURSIVE SuffixTable(_)
SuffixTable(list) ==
    IF list = <<>> THEN <<>>
    ELSE LET front == SubSeq(list, 1, Len(list) - 1)
             v == list[Len(list)]
             t == SuffixTable(front)
         IN  IF v.name = <<>> \/ strip(v.name, variant) = <<>> THEN t
             ELSE IF \E i \in DOMAIN front :
                        /\ strip(front[i].name, variant) # <<>>
                        /\ Normalize(front[i].name) = Normalize(v.name)
                  THEN Put(t, FreeSuffix(t, Normalize(v.name), 2), v.id)
                  ELSE Put(t, Normalize(v.name), v.id)

\* C1: while parse_simple runs, its table is the one the collision rule
\* gives for the entries processed so far: the first entry of a normalized
\* name has the unsuffixed symbol, each later one the smallest free suffix
\* >= 2 (Zealot, Zealot, Zealot gives Zealot, Zealot2, Zealot3).
C1_FirstSeenThenSuffix ==
    Running("parse_simple") => DictEq(units, SuffixTable(SubSeq(SimpleList, 1, idx - 1)))

\* The example of C1, which comes out as stated.
C1_ZealotExample ==
    /\ Running("parse_simple")
    /\ idx = 4
    /\ SimpleList = << Simple(<<"Z", "e", "a", "l", "o", "t">>, 1), Simple(<<"Z", "e", "a", "l", "o", "t">>, 2), Simple(<<"Z", "e", "a", "l", "o", "t">>, 3) >>
    /\ units = << [k |-> <<"Z", "e", "a", "l", "o", "t">>, v |-> 1], [k |-> <<"Z", "e", "a", "l", "o", "t", "2">>, v |-> 2],
                  [k |-> <<"Z", "e", "a", "l", "o", "t", "3">>, v |-> 3] >>

\* C2: while parse_simple runs, its table holds exactly one entry for every
\* processed entry with a non-empty name: no insertion overwrites an
\* earlier one.
C2_OneEntryPerNamedInput ==
    Running("parse_simple") =>
        Len(units) = Cardinality({i \in 1..(idx - 1) : SimpleList[i].name # <<>>})

\* C10: an entry whose name strips to nothing never makes the run fail: at
\* such an entry parse_simple has not died.
C10_EmptyAfterStripIsSkipped ==
    (pc = "parse_simple" /\ idx <= Len(SimpleList) /\ strip(SimpleList[idx].name, variant) = <<>>)
        => err = ""

-----------------------------------------------------------------------------
(* C3: valid identifiers                                                   *)

ValidAsClaimed(sym) ==
    /\ sym # <<>>
    /\ sym[1] \in Letters \cup {"_"}
    /\ \A i \in 2..Len(sym) : sym[i] \notin {" ", "_", "@"}

ValidAsBuilt(sym) ==
    /\ sym # <<>>
    /\ ~isdigit(sym[1])
    /\ sym[1] \notin Range(Lower) \cup {" "}
    /\ (sym[1] = "_" => Len(sym) >= 2 /\ isdigit(sym[2]))
    /\ \A i \in 2..Len(sym) : sym[i] \notin {" ", "_"}
    /\ (variant = "ids" => \A i \in DOMAIN sym : sym[i] # "@")

\* C3 as stated: every symbol of a finalized table is non-empty, starts
\* with a letter or the guard underscore and holds no space, underscore or
\* `@` after it.
C3_ValidIdentifierAsClaimed ==
    \A f \in Finalized : \A sym \in Keys(enums[f[1]][f[2]]) : ValidAsClaimed(sym)

\* C3 amended: every symbol of a finalized table is non-empty; its first
\* character is no digit, no lower-case letter and no space, and is an
\* underscore only as the guard in front of a digit; no space or underscore
\* follows it; generate_ids.py leaves no `@` in it.
C3_ValidIdentifierAsBuilt ==
    \A f \in Finalized : \A sym \in Keys(enums[f[1]][f[2]]) : ValidAsBuilt(sym)

C3_Witness ==
    /\ pc = "done"
    /\ \E f \in Finalized :
         /\ <<"_", "9", "l", "i", "v", "e", "s">> \in Keys(enums[f[1]][f[2]])
         /\ Keys(enums[f[1]][f[2]]) \cap {<<"#", "a", "b">>, <<"#", "a", "@", "b">>} # {}

-----------------------------------------------------------------------------
(* C4, C5: ability key resolution                                          *)

FallbackCase(v) ==
    /\ v.buttonname = <<>>
    /\ "friendlyname" \in v.has /\ v.friendlyname # <<>>
    /\ "name" \notin v.has

KeySource(v) ==
    IF "friendlyname" \in v.has THEN strip(v.friendlyname, variant)
    ELSE IF "name" \in v.has THEN strip(v.name, variant) \o strip(v.buttonname, variant)
    ELSE strip(v.buttonname, variant)

\* C5: once an entry with a non-empty button label is processed, its symbol
\* is the friendly label if present, else name + button label if a name is
\* present, else the button label, each stripped, then guarded, capitalised
\* and with "ResearchResearch" collapsed; the table maps it to the entry's id.
\* (An entry whose source text strips to nothing is never stored: it ends
\* the run with an IndexError.)
C5_KeySourceByPresentFields ==
    (pc = "abilities" /\ idx > 1 /\ AbilityList[idx - 1].buttonname # <<>>) =>
        /\ KeySource(AbilityList[idx - 1]) # <<>>
        /\ key = Finish(KeySource(AbilityList[idx - 1]))
        /\ key \in Keys(abilities)
        /\ Get(abilities, key) = AbilityList[idx - 1].id

C5_Witness ==
    /\ Running("abilities")
    /\ idx > 1
    /\ AbilityList[idx - 1].buttonname = <<"R", "e", "s", "e", "a", "r", "c", "h">>
    /\ AbilityList[idx - 1].has = {"name", "index"}
    /\ AbilityList[idx - 1].name = <<"G", "h", "o", "s", "t", " ", "A", "c", "a", "d", "e", "m", "y">>
    /\ key = <<"G", "h", "o", "s", "t", "A", "c", "a", "d", "e", "m", "y", "R", "e", "s", "e", "a", "r", "c", "h">>

-----------------------------------------------------------------------------
(* C6, C7: emission                                                        *)

MemberItems(b) == {<<b.members[i].k, b.members[i].v>> : i \in DOMAIN b.members}

ListsTable(b, name, t) ==
    /\ b.name = name
    /\ MemberItems(b) = Items(t)
    /\ Len(b.members) = Len(t)

\* C6: every category file written holds one unconditional block listing
\* the table when the tables of the first and last parsed snapshot are
\* equal, and otherwise a windows block listing the first snapshot's table
\* and a linux block listing the last one's, under the same enum name.
C6_SingleBlockIffTablesEqual ==
    \A n \in DOMAIN files :
        LET a == enums[1][n]
            b == enums[Len(enums)][n]
            blocks == files[n].blocks
        IN  /\ files[n].file = FILE_NAMES[n]
            /\ IF Items(a) = Items(b)
               THEN /\ Len(blocks) = 1
                    /\ blocks[1].cfg = ""
                    /\ ListsTable(blocks[1], ENUM_NAMES[n], a)
               ELSE /\ Len(blocks) = 2
                    /\ blocks[1].cfg = "windows" /\ ListsTable(blocks[1], ENUM_NAMES[n], a)
                    /\ blocks[2].cfg = "linux" /\ ListsTable(blocks[2], ENUM_NAMES[n], b)

\* Both snapshots give {Marine: 48} for Units and one block is written for
\* it, while another category of the same run is written as a pair.
C6_Witness ==
    /\ pc = "done"
    /\ Len(enums) = 2
    /\ enums[1][1] = << [k |-> <<"M", "a", "r", "i", "n", "e">>, v |-> 48] >>
    /\ enums[2][1] = << [k |-> <<"M", "a", "r", "i", "n", "e">>, v |-> 48] >>
    /\ Len(files[1].blocks) = 1
    /\ \E n \in DOMAIN files : Len(files[n].blocks) = 2 /\ Len(enums[1][n]) = Len(enums[2][n])

\* The rename table configured for an enum: generate_ids.py's MIMICS entry.
Renames(name) == IF variant = "ids" /\ name \in DOMAIN MIMICS THEN MIMICS[name] ELSE <<>>

\* C7: in every block written, a member carries a deprecation note exactly
\* when its symbol is an old name of the rename table of the block's enum,
\* and the note names that enum and the canonical symbol of the old name.
C7_NoteIffRenamed ==
    \A n \in DOMAIN files : \A j \in DOMAIN files[n].blocks :
        LET b == files[n].blocks[j]
        IN  \A i \in DOMAIN b.members :
              LET m == b.members[i]
              IN  IF m.k \in Keys(Renames(b.name))
                  THEN m.note = <<b.name, Get(Renames(b.name), m.k)>>
                  ELSE m.note = <<>>

Member(n, sym) ==
    LET ms == files[n].blocks[1].members
    IN  ms[CHOOSE i \in DOMAIN ms : ms[i].k = sym]

HasMember(n, sym) == \E i \in DOMAIN files[n].blocks[1].members : files[n].blocks[1].members[i].k = sym

\* UpgradeId lists the old name MarineStimpack with its note and Stimpack
\* without one; BuffId lists Lurker, an old name of UnitTypeId, without one.
C7_Witness ==
    /\ pc = "done"
    /\ variant = "ids"
    /\ HasMember(3, <<"M", "a", "r", "i", "n", "e", "S", "t", "i", "m", "p", "a", "c", "k">>) /\ HasMember(3, <<"S", "t", "i", "m", "p", "a", "c", "k">>) /\ HasMember(4, <<"L", "u", "r", "k", "e", "r">>)
    /\ Member(3, <<"M", "a", "r", "i", "n", "e", "S", "t", "i", "m", "p", "a", "c", "k">>).note = <<"UpgradeId", <<"S", "t", "i", "m", "p", "a", "c", "k">>>>
    /\ Member(3, <<"S", "t", "i", "m", "p", "a", "c", "k">>).note = <<>>
    /\ Member(4, <<"L", "u", "r", "k", "e", "r">>).note = <<>>

-----------------------------------------------------------------------------
(* C8: the fatal "Not mapped" error                                        *)

Unmapped(v) ==
    /\ v.buttonname = <<>>
    /\ "remapid" \in v.has
    /\ "friendlyname" \in v.has /\ v.friendlyname = <<>>

HasUnmapped == \E s \in DOMAIN data : \E i \in DOMAIN data[s].Abilities : Unmapped(data[s].Abilities[i])

\* Nothing is written before every snapshot is resolved.
NoOutputBeforeResolution ==
    (files # <<>> \/ mod.written) => (pc \in {"write", "done"} /\ Len(enums) = Snapshots(variant))

\* C8: with an unmapped ability entry in a snapshot the run never
\* completes, it dies of nothing but "Not mapped", and no file is written
\* when it dies or before resolution is over.
C8_UnmappedAbortsNotMapped ==
    /\ NoOutputBeforeResolution
    /\ HasUnmapped =>
         /\ pc # "done"
         /\ err # "" => (err = "Not mapped" /\ files = <<>> /\ ~mod.written)

-----------------------------------------------------------------------------
(* C9: symbols sharing an id                                               *)

Alias(name, old, new) ==
    /\ variant = "ids"
    /\ name \in DOMAIN MIMICS
    /\ old \in Keys(MIMICS[name])
    /\ Get(MIMICS[name], old) = new

SharedIds(t) == {p \in Keys(t) \X Keys(t) : p[1] # p[2] /\ Get(t, p[1]) = Get(t, p[2])}

\* C9 as stated: in a finalized table two symbols share an id only when one
\* is configured as the deprecated alias of the other.
C9_SharedIdOnlyByDeprecation ==
    \A f \in Finalized : \A p \in SharedIds(enums[f[1]][f[2]]) :
        Alias(ENUM_NAMES[f[2]], p[1], p[2]) \/ Alias(ENUM_NAMES[f[2]], p[2], p[1])

\* The symbols the fixes of parse_data set in position c for snapshot s.
Fixed(s, c) ==
    IF variant = "enums" /\ s = 2
    THEN IF c = 3 THEN {<<"E", "n", "h", "a", "n", "c", "e", "d", "S", "h", "o", "c", "k", "w", "a", "v", "e", "s">>}
         ELSE IF c = 2 THEN {<<"G", "h", "o", "s", "t", "A", "c", "a", "d", "e", "m", "y", "R", "e", "s", "e", "a", "r", "c", "h", "E", "n", "h", "a", "n", "c", "e", "d", "S", "h", "o", "c", "k", "w", "a", "v", "e", "s">>} ELSE {}
    ELSE IF c = 2 THEN {<<"T", "e", "r", "r", "a", "n", "B", "u", "i", "l", "d", "R", "e", "f", "i", "n", "e", "r", "y">>} ELSE {}

RawShares(s, c, id) ==
    \E i, j \in DOMAIN Raw(s, c) : i # j /\ Raw(s, c)[i].id = id /\ Raw(s, c)[j].id = id

SharedIdExplained(s, c, t) ==
    \A p \in SharedIds(t) :
        RawShares(s, c, Get(t, p[1])) \/ p[1] \in Fixed(s, c) \/ p[2] \in Fixed(s, c)

\* C9 amended: in a finalized table, and in a block written from it, two
\* symbols share an id only when two raw entries of that category of that
\* snapshot carry the id, or one of the symbols is set by the fixes of
\* parse_data; the rename table plays no part.
C9_SharedIdOnlyFromRawOrFix ==
    /\ \A f \in Finalized : SharedIdExplained(f[1], f[2], enums[f[1]][f[2]])
    /\ \A n \in DOMAIN files : \A j \in DOMAIN files[n].blocks :
         LET b == files[n].blocks[j]
             s == IF b.cfg = "linux" THEN Len(enums) ELSE 1
         IN  \A x, y \in DOMAIN b.members :
               (b.members[x].k # b.members[y].k /\ b.members[x].v = b.members[y].v) =>
                   \/ RawShares(s, n, b.members[x].v)
                   \/ b.members[x].k \in Fixed(s, n)
                   \/ b.members[y].k \in Fixed(s, n)

\* A table with a shared id from two raw entries, and one with the fixed
\* TerranBuildRefinery on the id of a resolved symbol.
C9_Witness ==
    /\ pc = "done"
    /\ \/ \E f \in Finalized :
            /\ f[2] = 1
            /\ SharedIds(enums[f[1]][f[2]]) # {}
       \/ \E f \in Finalized :
            /\ f[2] = 2
            /\ <<<<"R", "e", "f", "i", "n", "e", "r", "y">>, <<"T", "e", "r", "r", "a", "n", "B", "u", "i", "l", "d", "R", "e", "f", "i", "n", "e", "r", "y">>>> \in SharedIds(enums[f[1]][f[2]])
=============================================================================
